---------------------------- MODULE Spec2Model ----------------------------
(***************************************************************************)
(* A model of PatchClassificationModule (src/segmentation/module.py): the  *)
(* training-loop callbacks of the prototype segmentation network, with the *)
(* prototype rebalancing pass, the loss of a step, the metric aggregation  *)
(* and the learning-rate schedule.                                         *)
(*                                                                         *)
(* Numbers that the program holds as floats (fractions, thresholds, loss   *)
(* values, prototype vectors) are exact rationals <<n, d>> with d > 0 in   *)
(* lowest terms; a prototype vector is one rational coordinate.  Python's  *)
(* None is the integer NoneVal for an optional integer and the string      *)
(* "None" for an optional object.                                          *)
(***************************************************************************)
EXTENDS Integers, Sequences, FiniteSets, TLC

\* ------------------------------------------------------------------ bounds

\* number of prototypes (ppnet.num_prototypes) and of classes of the model
NumProtos == 4
NumClasses == 3
\* a run of the trainer's schedule makes at most MaxCalls callback calls, a
\* run of callbacks in any order at most MaxCallsAny
MaxCalls == 11
MaxCallsAny == 6
\* the number of callbacks after configure_optimizers in SpecMetrics
MaxCallsMetrics == 6
\* the number of callbacks after configure_optimizers in SpecBest
MaxCallsBest == 8
\* under the trainer's schedule a validation or test loop has at most
\* MaxEvalSteps batches
MaxEvalSteps == 1

NoneVal == -1

Protos == 0 .. (NumProtos - 1)
Classes == 0 .. (NumClasses - 1)

\* --------------------------------------------------------------- rationals

Abs(x) == IF x < 0 THEN -x ELSE x

RECURSIVE Gcd(_, _)
Gcd(a, b) == IF b = 0 THEN a ELSE Gcd(b, a % b)

Rat(n, d) ==
    LET g == Gcd(Abs(n), Abs(d))
        s == IF d < 0 THEN -1 ELSE 1
    IN  IF n = 0 THEN <<0, 1>> ELSE <<(s * n) \div g, (s * d) \div g>>

RInt(n) == <<n, 1>>
RZero == <<0, 1>>
RAdd(x, y) == Rat(x[1] * y[2] + y[1] * x[2], x[2] * y[2])
RMul(x, y) == Rat(x[1] * y[1], x[2] * y[2])
RDivInt(x, k) == Rat(x[1], x[2] * k)
RLess(x, y) == x[1] * y[2] < y[1] * x[2]
RLeq(x, y) == x[1] * y[2] <= y[1] * x[2]

RECURSIVE RSum(_)
RSum(s) == IF s = <<>> THEN RZero ELSE RAdd(s[1], RSum(Tail(s)))

\* np.mean of a non-empty list
Mean(s) == RDivInt(RSum(s), Len(s))

\* ---------------------------------------------------------------- helpers

RECURSIVE SortedSeq(_)
SortedSeq(S) ==
    IF S = {} THEN <<>>
    ELSE LET m == CHOOSE x \in S : \A y \in S : x <= y
         IN  <<m>> \o SortedSeq(S \ {m})

Range(s) == {s[i] : i \in DOMAIN s}

\* the orders of the elements of S that np.argsort may return for the keys
\* key[x], ascending when asc and descending otherwise; the order of equal
\* keys is left to the sort
RECURSIVE Argsorts(_, _, _)
Argsorts(S, key, asc) ==
    IF S = {} THEN {<<>>}
    ELSE LET first == {x \in S : \A y \in S :
                         IF asc THEN RLeq(key[x], key[y]) ELSE RLeq(key[y], key[x])}
         IN  UNION {{<<m>> \o t : t \in Argsorts(S \ {m}, key, asc)} : m \in first}

\* ------------------------------------------------------------------- state

VARIABLES
    hp,                        \* the constructor's arguments (self.<name>)
    prototype_class_identity,  \* ppnet.prototype_class_identity[p][c] in {0, 1}
    prototype_vectors,         \* ppnet.prototype_vectors[p]
    last_layer,                \* ppnet.last_layer
    grad_mode,                 \* which parameter groups require gradients
    cls_prototypes,            \* self.cls_prototypes[c]: prototypes of class c, ascending
    proto2cls,                 \* self.proto2cls[p]
    rebalance_epoch_counter,
    rebalancing_stats,
    lr_scheduler,
    optimizer,                 \* the parameter groups of the optimizer, {} before configure_optimizers
    iter_steps,
    batch_metrics,
    metrics,
    sanity_check_val,
    best_acc,
    global_step,               \* trainer.global_step
    files,                     \* checkpoint files written so far
    crashed,                   \* "" or the exception that ended the run
    calls,                     \* number of callback calls made
    n_qualifying,              \* on_validation_epoch_end calls so far with global_step >= prototype_rebalancing
    last,                      \* what the most recent callback call did
    schedule,                  \* "lightning": the trainer's order of callbacks; "any": any order
    trainer_stage,             \* where the trainer is in its loops
    max_calls,                 \* the run makes at most this many callback calls
    n_val_epoch_ends,          \* on_validation_epoch_end calls so far
    window,                    \* the steps since on_train_epoch_start, while of one split
    loop_steps,                \* steps made in the trainer's current loop
    grads,                     \* the .grad buffers: the manual_backward calls in them
    buffer_splits,             \* the split of the step of every value in batch_metrics
    patches_since,             \* training patches per predicted class since the last rebalance_prototypes
    best_seen                  \* greatest validation accuracy of the calls after the first

vars == <<hp, prototype_class_identity, prototype_vectors, last_layer, grad_mode,
          cls_prototypes, proto2cls, rebalance_epoch_counter, rebalancing_stats,
          lr_scheduler, optimizer, iter_steps, batch_metrics, metrics,
          sanity_check_val, best_acc, global_step, files, crashed, calls,
          n_qualifying, last, schedule, trainer_stage,
          max_calls, n_val_epoch_ends, window, loop_steps,
          grads, buffer_splits, patches_since, best_seen>>

Splits == {"train", "val", "test", "train_last_layer"}

reset_metrics ==
    [n_correct |-> 0, n_batches |-> 0, n_patches |-> 0,
     cross_entropy |-> RZero, kld_loss |-> RZero, loss |-> RZero]

\* defaultdict(list) with no key
EmptyBatchMetrics == [loss |-> <<>>, cross_entropy |-> <<>>, kld_loss |-> <<>>]

\* Counter()
EmptyCounter == [p \in Protos |-> 0]

EmptyStats ==
    [proto_class_patches_total |-> EmptyCounter,
     patches_nearest_prototypes |-> EmptyCounter]

\* ------------------------------------------- helper collections (rebalancing)

\* (cls_identity == 1).nonzero() for every class
ClsPrototypesOf(ident) ==
    [c \in Classes |-> SortedSeq({p \in Protos : ident[p][c] = 1})]

\* proto2cls[proto_num] = cls_num, classes visited in ascending order
Proto2ClsOf(ident) ==
    [p \in Protos |->
        LET cs == {c \in Classes : ident[p][c] = 1}
        IN  IF cs = {} THEN NoneVal ELSE CHOOSE c \in cs : \A d \in cs : d <= c]

\* ppnet.set_last_layer_incorrect_connection: the connections follow the
\* class identity, and what training changed in the weights is gone
SetLastLayerIncorrectConnection(ident) == [connection |-> ident, updates |-> 0]

\* --------------------------------------------------- rebalance_prototypes

HasStats(p) == rebalancing_stats.proto_class_patches_total[p] > 0

ProtoFrac(p) ==
    Rat(rebalancing_stats.patches_nearest_prototypes[p],
        rebalancing_stats.proto_class_patches_total[p])

\* proto_nums
ProtoNums == {p \in Protos : HasStats(p)}

RMinOf(S) == CHOOSE x \in S : \A y \in S : RLeq(x, y)

InitialSaturation == <<2, 1>>
SkipSaturation == <<11, 10>>

\* cls_proto_saturation: 2.0, lowered to the least fraction of the class's prototypes
ClsProtoSaturation ==
    [c \in Classes |->
        RMinOf({InitialSaturation} \cup {ProtoFrac(p) : p \in {q \in ProtoNums : proto2cls[q] = c}})]

\* while cls_i < num_classes and saturation[top[cls_i]] > 1.1: cls_i += 1
RECURSIVE SkipClasses(_, _, _)
SkipClasses(cls_i, top, sat) ==
    IF cls_i < NumClasses /\ RLess(SkipSaturation, sat[top[cls_i + 1]])
    THEN SkipClasses(cls_i + 1, top, sat)
    ELSE cls_i

NaN == <<0, 0>>

\* ClsProtoMean without the division by the number of prototypes
ClsProtoMeanUndivided(vecs, saturated_class) ==
    LET members == cls_prototypes[saturated_class]
    IN  RSum([i \in 1 .. Len(members) |-> vecs[members[i]]])

\* the mean of the vectors of self.cls_prototypes[saturated_class]
ClsProtoMean(vecs, saturated_class) ==
    LET members == cls_prototypes[saturated_class]
    IN  IF Len(members) = 0 THEN NaN
        ELSE Mean([i \in 1 .. Len(members) |-> vecs[members[i]]])

\* AssignClass without clearing the row first
AssignClassKeepingRow(ident, proto_num, saturated_class) ==
    [ident EXCEPT ![proto_num][saturated_class] = 1]

\* prototype_class_identity[proto_num] = 0.0; [proto_num, saturated_class] = 1.0
AssignClass(ident, proto_num, saturated_class) ==
    [ident EXCEPT ![proto_num] = [c \in Classes |-> IF c = saturated_class THEN 1 ELSE 0]]

\* SaturatedClass without the test of the candidate's saturation
SaturatedClassAnySaturation(proto_num, cls_i, top, sat) ==
    IF cls_i >= NumClasses THEN NoneVal
    ELSE LET cand == top[cls_i + 1]
         IN  IF cand = proto2cls[proto_num] THEN NoneVal ELSE cand

\* the class a prototype below the threshold may move to, or NoneVal
SaturatedClass(proto_num, cls_i, top, sat) ==
    IF cls_i >= NumClasses THEN NoneVal
    ELSE LET cand == top[cls_i + 1]
         IN  IF cand = proto2cls[proto_num]
                \/ RLess(sat[cand], hp.prototype_rebalancing_threshold)
             THEN NoneVal ELSE cand

\* MovePrototype that writes the class identity before it looks at the
\* initialization method
MovePrototypeAssigningFirst(st, proto_num, saturated_class, draws) ==
    LET entry == [proto |-> proto_num, from |-> proto2cls[proto_num],
                  to |-> saturated_class, frac |-> ProtoFrac(proto_num),
                  ident_before |-> st.ident, vecs_before |-> st.vecs,
                  draw |-> draws[proto_num]]
        moved == [st EXCEPT !.any_moved = TRUE, !.selected = Append(@, entry),
                            !.ident = AssignClass(st.ident, proto_num, saturated_class)]
    IN  IF hp.prototype_initialization_method \notin {"random", "mean"}
        THEN [moved EXCEPT !.status = "raise"]
        ELSE [moved EXCEPT
                !.vecs[proto_num] =
                    IF hp.prototype_initialization_method = "random"
                    THEN draws[proto_num]
                    ELSE ClsProtoMean(st.vecs, saturated_class),
                !.cls_i = @ + 1]

\* MovePrototype that leaves cls_i where it is
MovePrototypeKeepingCandidate(st, proto_num, saturated_class, draws) ==
    LET entry == [proto |-> proto_num, from |-> proto2cls[proto_num],
                  to |-> saturated_class, frac |-> ProtoFrac(proto_num),
                  ident_before |-> st.ident, vecs_before |-> st.vecs,
                  draw |-> draws[proto_num]]
        moved == [st EXCEPT !.any_moved = TRUE, !.selected = Append(@, entry)]
    IN  IF hp.prototype_initialization_method \notin {"random", "mean"}
        THEN [moved EXCEPT !.status = "raise"]
        ELSE [moved EXCEPT
                !.vecs[proto_num] =
                    IF hp.prototype_initialization_method = "random"
                    THEN draws[proto_num]
                    ELSE ClsProtoMean(st.vecs, saturated_class),
                !.ident = AssignClass(st.ident, proto_num, saturated_class)]

\* lines 495-515: the selected prototype is reinitialized and assigned to
\* saturated_class, or NotImplementedError is raised
MovePrototype(st, proto_num, saturated_class, draws) ==
    LET entry == [proto |-> proto_num, from |-> proto2cls[proto_num],
                  to |-> saturated_class, frac |-> ProtoFrac(proto_num),
                  ident_before |-> st.ident, vecs_before |-> st.vecs,
                  draw |-> draws[proto_num]]
        moved == [st EXCEPT !.any_moved = TRUE, !.selected = Append(@, entry)]
    IN  IF hp.prototype_initialization_method \notin {"random", "mean"}
        THEN [moved EXCEPT !.status = "raise"]
        ELSE [moved EXCEPT
                !.vecs[proto_num] =
                    IF hp.prototype_initialization_method = "random"
                    THEN draws[proto_num]
                    ELSE ClsProtoMean(st.vecs, saturated_class),
                !.ident = AssignClass(st.ident, proto_num, saturated_class),
                !.cls_i = @ + 1]

\* one pass of the loop over np.argsort(frac_top_proto)
LoopBody(st, proto_num, top, sat, draws) ==
    IF st.status # "run" THEN st
    ELSE IF ~RLess(ProtoFrac(proto_num), hp.prototype_rebalancing_threshold)
    THEN [st EXCEPT !.status = "break"]
    ELSE
      LET ci == SkipClasses(st.cls_i, top, sat)
          saturated_class == SaturatedClass(proto_num, ci, top, sat)
      IN  IF saturated_class = NoneVal
          THEN IF hp.randomize_all_below_threshold
               THEN [st EXCEPT !.cls_i = ci,
                               !.vecs[proto_num] = draws[proto_num],
                               !.randomized = Append(@, proto_num)]
               ELSE [st EXCEPT !.cls_i = ci, !.status = "break"]
          ELSE MovePrototype([st EXCEPT !.cls_i = ci], proto_num, saturated_class, draws)

RECURSIVE Loop(_, _, _, _, _, _)
Loop(st, order, k, top, sat, draws) ==
    IF k > Len(order) THEN st
    ELSE Loop(LoopBody(st, order[k], top, sat, draws), order, k + 1, top, sat, draws)

\* RebuildDue that holds only in the first call
RebuildDueAtFirstOnly(any_moved) == rebalance_epoch_counter = 0

\* RebuildDue that holds in every call
RebuildDueAlways(any_moved) == TRUE

\* line 520: if any_moved or self.rebalance_epoch_counter == 0
RebuildDue(any_moved) == any_moved \/ rebalance_epoch_counter = 0

\* rebalance_prototypes(), for one outcome of the two argsorts and of the
\* uniform draws: the state it leaves, and a record of what it did
RebalancePrototypes(order, top, draws) ==
    LET sat == ClsProtoSaturation
        st0 == [ident |-> prototype_class_identity, vecs |-> prototype_vectors,
                cls_i |-> 0, any_moved |-> FALSE, randomized |-> <<>>,
                selected |-> <<>>, status |-> "run"]
        st == Loop(st0, order, 1, top, sat, draws)
        raised == st.status = "raise"
        rebuild == ~raised /\ RebuildDue(st.any_moved)
    IN  [ident |-> st.ident,
         vecs |-> st.vecs,
         cls_prototypes |-> IF rebuild THEN ClsPrototypesOf(st.ident) ELSE cls_prototypes,
         proto2cls |-> IF rebuild THEN Proto2ClsOf(st.ident) ELSE proto2cls,
         last_layer |-> IF rebuild THEN SetLastLayerIncorrectConnection(st.ident) ELSE last_layer,
         raised |-> raised,
         rebuilt |-> rebuild,
         any_moved |-> st.any_moved,
         selected |-> st.selected,
         randomized |-> st.randomized,
         saturation |-> sat,
         stats |-> rebalancing_stats,
         ident_before |-> prototype_class_identity,
         vecs_before |-> prototype_vectors,
         cls_prototypes_before |-> cls_prototypes,
         proto2cls_before |-> proto2cls,
         last_layer_before |-> last_layer]

\* the record of a call in which rebalance_prototypes did not run
NoRebalance ==
    [ident |-> prototype_class_identity,
     vecs |-> prototype_vectors,
     cls_prototypes |-> cls_prototypes,
     proto2cls |-> proto2cls,
     last_layer |-> last_layer,
     raised |-> FALSE, rebuilt |-> FALSE, any_moved |-> FALSE,
     selected |-> <<>>, randomized |-> <<>>,
     saturation |-> [c \in Classes |-> InitialSaturation],
     stats |-> EmptyStats,
     ident_before |-> prototype_class_identity,
     vecs_before |-> prototype_vectors,
     cls_prototypes_before |-> cls_prototypes,
     proto2cls_before |-> proto2cls,
     last_layer_before |-> last_layer]

\* ------------------------------------------------------------------ _step

\* What ppnet.forward and the loss terms give for one batch is an input: a
\* sequence of model outputs, each with its patches (predicted class, target
\* class, activation of every prototype) and the values of the loss terms:
\*   [patches |-> <<[output_class, target, patch_activations], ...>>,
\*    cross_entropy, kld, l1_norm, cluster_cost, separation]
\* cluster_cost and separation are the values of the expressions of lines
\* 301-316, which the program does not evaluate.

BigDistance == 10000000

\* kld_loss: pairs are collected only when loss_weight_kld > 0, else 0.0
KldLoss(o) == IF hp.loss_weight_kld > 0 THEN o.kld ELSE RZero

\* l1: the norm of the masked last-layer weights when loss_weight_l1 > 0, else 0.0
L1(o) == IF hp.loss_weight_l1 > 0 THEN o.l1_norm ELSE RZero

\* loss of one model output
OutputLoss(o) ==
    IF hp.loss_weight_kld > 0
    THEN RAdd(RAdd(RMul(RInt(hp.loss_weight_crs_ent), o.cross_entropy),
                   RMul(RInt(hp.loss_weight_kld), KldLoss(o))),
              RMul(RInt(hp.loss_weight_l1), L1(o)))
    ELSE RAdd(RMul(RInt(hp.loss_weight_crs_ent), o.cross_entropy),
              RMul(RInt(hp.loss_weight_l1), L1(o)))

\* McsLoss without the division by the number of outputs
McsLossSummed(outs) ==
    RSum([i \in 1 .. Len(outs) |-> OutputLoss(outs[i])])

\* mcs_x += x / len(mcs_model_outputs), over the outputs
McsLoss(outs) ==
    RSum([i \in 1 .. Len(outs) |-> RDivInt(OutputLoss(outs[i]), Len(outs))])

McsCrossEntropy(outs) ==
    RSum([i \in 1 .. Len(outs) |-> RDivInt(outs[i].cross_entropy, Len(outs))])

McsKldLoss(outs) ==
    RSum([i \in 1 .. Len(outs) |-> RDivInt(KldLoss(outs[i]), Len(outs))])

RECURSIVE IntSum(_)
IntSum(s) == IF s = <<>> THEN 0 ELSE s[1] + IntSum(Tail(s))

\* torch.sum(is_correct) and output.shape[0], summed over the outputs
NCorrect(outs) ==
    IntSum([i \in 1 .. Len(outs) |->
        Cardinality({j \in DOMAIN outs[i].patches :
            outs[i].patches[j].output_class = outs[i].patches[j].target})])

NPatches(outs) == IntSum([i \in 1 .. Len(outs) |-> Len(outs[i].patches)])

\* torch.argmin(patch_activations + (1 - output_class_mask) * 10e6): the first
\* prototype of least masked distance
NearestPrototype(patch) ==
    LET d == [p \in Protos |->
                patch.patch_activations[p]
                + (1 - prototype_class_identity[p][patch.output_class]) * BigDistance]
    IN  CHOOSE p \in Protos :
            \A q \in Protos : d[p] < d[q] \/ (d[p] = d[q] /\ p <= q)

\* UpdatedStats with the two counters exchanged
UpdatedStatsExchanged(patches) ==
    LET idx == DOMAIN patches
        total == [c \in Classes |->
                    Cardinality({j \in idx : patches[j].output_class = c})]
        owners == [p \in Protos |->
                    {c \in Classes : total[c] > 0 /\ p \in Range(cls_prototypes[c])}]
    IN  [patches_nearest_prototypes |->
            [p \in Protos |->
                rebalancing_stats.patches_nearest_prototypes[p]
                + IntSum([i \in 1 .. NumClasses |->
                     IF (i - 1) \in owners[p] THEN total[i - 1] ELSE 0])],
         proto_class_patches_total |->
            [p \in Protos |->
                rebalancing_stats.proto_class_patches_total[p]
                + IntSum([i \in 1 .. NumClasses |->
                     IF (i - 1) \in owners[p]
                     THEN Cardinality({j \in idx : patches[j].output_class = i - 1
                                                   /\ NearestPrototype(patches[j]) = p})
                     ELSE 0])]]

\* the statistics after a training step: for every predicted class, each of
\* its prototypes (self.cls_prototypes) gets the patches nearest to it and
\* the patches of the class
UpdatedStats(patches) ==
    LET idx == DOMAIN patches
        near == [j \in idx |-> NearestPrototype(patches[j])]
        total == [c \in Classes |->
                    Cardinality({j \in idx : patches[j].output_class = c})]
        owners == [p \in Protos |->
                    {c \in Classes : total[c] > 0 /\ p \in Range(cls_prototypes[c])}]
    IN  [patches_nearest_prototypes |->
            [p \in Protos |->
                rebalancing_stats.patches_nearest_prototypes[p]
                + IntSum([i \in 1 .. NumClasses |->
                     IF (i - 1) \in owners[p]
                     THEN Cardinality({j \in idx : patches[j].output_class = i - 1
                                                   /\ near[j] = p})
                     ELSE 0])],
         proto_class_patches_total |->
            [p \in Protos |->
                rebalancing_stats.proto_class_patches_total[p]
                + IntSum([i \in 1 .. NumClasses |->
                     IF (i - 1) \in owners[p] THEN total[i - 1] ELSE 0])]]

\* optimizer.step(): the parameters of the optimizer's groups move
StepVectors(grad) ==
    IF "prototype_vectors" \in optimizer
    THEN [p \in Protos |-> RAdd(prototype_vectors[p], grad)]
    ELSE prototype_vectors

StepLastLayer ==
    IF "last_layer" \in optimizer
    THEN [last_layer EXCEPT !.updates = @ + 1]
    ELSE last_layer

\* Flush that adds the sum of the buffered values
FlushSummed(m, bm) ==
    [m EXCEPT !.loss = RAdd(@, RSum(bm.loss)),
              !.cross_entropy = RAdd(@, RSum(bm.cross_entropy)),
              !.kld_loss = RAdd(@, RSum(bm.kld_loss)),
              !.n_batches = @ + 1]

\* metrics[key] += mean of the buffered values, n_batches += 1
Flush(m, bm) ==
    [m EXCEPT !.loss = RAdd(@, Mean(bm.loss)),
              !.cross_entropy = RAdd(@, Mean(bm.cross_entropy)),
              !.kld_loss = RAdd(@, Mean(bm.kld_loss)),
              !.n_batches = @ + 1]

\* iter_steps after the step
IterStepsAfter(split_key) ==
    IF split_key = "train"
    THEN IF iter_steps + 1 = hp.iter_size THEN 0 ELSE iter_steps + 1
    ELSE IF iter_steps + 1 = hp.iter_size THEN 0 ELSE iter_steps + 1

\* whether a training step steps the scheduler (line 395)
StepSchedulerInTraining ==
    lr_scheduler # "None" /\ ~hp.reduce_lr_on_plateau

\* CollectsStats without the test of prototype_rebalancing
CollectsStatsAlways == TRUE

\* whether a training step counts patches for rebalancing (line 398)
CollectsStats == hp.prototype_rebalancing # NoneVal

NoStep ==
    [terms |-> <<>>, mcs_loss |-> RZero, optimizer_stepped |-> FALSE,
     zero_grad |-> FALSE, backward |-> FALSE, discarded |-> 0, applied |-> 0,
     applied_anew |-> 0]

\* the .grad buffers hold no gradient
NoGrads == [since_zero |-> 0, unapplied |-> 0]

\* lines 164-165: optimizer.zero_grad() at a training step with iter_steps = 0
ZeroGrad(split_key) == split_key = "train" /\ iter_steps = 0

\* the .grad buffers after the zero_grad, manual_backward and optimizer.step
\* of a step: since_zero counts the manual_backward calls since the last
\* zero_grad, unapplied those among them no optimizer.step has applied
GradsAfter(split_key) ==
    LET zeroed == IF ZeroGrad(split_key) THEN NoGrads ELSE grads
        backed == IF split_key = "train"
                  THEN [since_zero |-> zeroed.since_zero + 1,
                        unapplied |-> zeroed.unapplied + 1]
                  ELSE zeroed
    IN  IF split_key = "train" /\ iter_steps + 1 = hp.iter_size
        THEN [backed EXCEPT !.unapplied = 0]
        ELSE backed

\* the patches of the last output of a batch, per predicted class
PatchesPerClass(outs) ==
    [c \in Classes |->
        Cardinality({j \in DOMAIN outs[Len(outs)].patches :
                        outs[Len(outs)].patches[j].output_class = c})]

\* the loss terms of the outputs of a batch
Terms(outs) ==
    [i \in 1 .. Len(outs) |->
        [cross_entropy |-> outs[i].cross_entropy, kld |-> outs[i].kld,
         l1_norm |-> outs[i].l1_norm, cluster_cost |-> outs[i].cluster_cost,
         separation |-> outs[i].separation]]

\* The trainer's order of callbacks in fit(): the sanity-check validation,
\* then per epoch on_train_epoch_start, the training steps, the validation
\* steps, validation_epoch_end, on_validation_epoch_end, training_epoch_end;
\* test() runs the test steps and test_epoch_end.
StageAfter(op) ==
    IF schedule = "any" THEN "any"
    ELSE CASE op = "validation_step" /\ trainer_stage = "sanity" -> "sanity_val"
           [] op = "validation_step" /\ trainer_stage = "train" -> "val"
           [] op = "validation_step" /\ trainer_stage \in {"sanity_val", "val"}
                /\ loop_steps < MaxEvalSteps -> trainer_stage
           [] op = "validation_epoch_end" /\ trainer_stage = "sanity_val" -> "sanity_ended"
           [] op = "validation_epoch_end" /\ trainer_stage = "val" -> "val_ended"
           [] op = "on_validation_epoch_end" /\ trainer_stage = "sanity_ended" -> "epoch_start"
           [] op = "on_validation_epoch_end" /\ trainer_stage = "val_ended" -> "train_ended"
           [] op = "on_train_epoch_start" /\ trainer_stage = "epoch_start" -> "train_start"
           [] op = "training_step" /\ trainer_stage \in {"train_start", "train"} -> "train"
           [] op = "training_epoch_end" /\ trainer_stage = "train_ended" -> "epoch_start"
           [] op = "test_step" /\ trainer_stage = "epoch_start" -> "test"
           [] op = "test_step" /\ trainer_stage = "test" /\ loop_steps < MaxEvalSteps -> "test"
           [] op = "test_epoch_end" /\ trainer_stage = "test" -> "done"
           [] OTHER -> "no"

Allowed(op) == StageAfter(op) # "no"

LoopStepsAfter(op) ==
    IF schedule = "any" THEN 0
    ELSE IF StageAfter(op) = trainer_stage THEN loop_steps + 1
    ELSE IF op \in {"training_step", "validation_step", "test_step"} THEN 1
    ELSE 0

NoLogged == [loss |-> RZero, cross_entropy |-> RZero, kld_loss |-> RZero, n_batches |-> 0]

Running == crashed = "" /\ optimizer # {} /\ calls < max_calls

\* The record of the steps made since on_train_epoch_start: "open" while
\* nothing but steps of one split ran since an on_train_epoch_start that
\* found iter_steps = 0 and no buffered values, "ended" right after that
\* split's _epoch_end, "closed" otherwise.
NoWindow == [status |-> "closed", split |-> "", values |-> <<>>]

WindowAfterStep(split_key, value) ==
    IF window.status = "open" /\ window.split \in {"", split_key}
    THEN [status |-> "open", split |-> split_key, values |-> Append(window.values, value)]
    ELSE NoWindow

WindowAfterEpochEnd(split_key) ==
    IF window.status = "open" /\ window.split \in {"", split_key}
    THEN [status |-> "ended", split |-> split_key, values |-> window.values]
    ELSE NoWindow

Step(split_key, op, outs, grad) ==
    /\ Running
    /\ Allowed(op)
    /\ trainer_stage' = StageAfter(op)
    /\ loop_steps' = LoopStepsAfter(op)
    /\ LET appended == [loss |-> Append(batch_metrics.loss, McsLoss(outs)),
                        cross_entropy |-> Append(batch_metrics.cross_entropy, McsCrossEntropy(outs)),
                        kld_loss |-> Append(batch_metrics.kld_loss, McsKldLoss(outs))]
           its == IterStepsAfter(split_key)
           stepped == split_key = "train" /\ iter_steps + 1 = hp.iter_size
           counted == [metrics[split_key] EXCEPT !.n_correct = @ + NCorrect(outs),
                                                 !.n_patches = @ + NPatches(outs)]
       IN  /\ iter_steps' = its
           /\ batch_metrics' = IF its = 0 THEN EmptyBatchMetrics ELSE appended
           /\ metrics' = [metrics EXCEPT ![split_key] =
                             IF its = 0 THEN Flush(counted, appended) ELSE counted]
           /\ prototype_vectors' = IF stepped THEN StepVectors(grad) ELSE prototype_vectors
           /\ last_layer' = IF stepped THEN StepLastLayer ELSE last_layer
           /\ global_step' = IF stepped THEN global_step + 1 ELSE global_step
           /\ rebalancing_stats' =
                 IF split_key = "train" /\ CollectsStats
                 THEN UpdatedStats(outs[Len(outs)].patches)
                 ELSE rebalancing_stats
           /\ grads' = GradsAfter(split_key)
           /\ buffer_splits' = IF its = 0 THEN <<>> ELSE Append(buffer_splits, split_key)
           /\ patches_since' =
                 IF split_key = "train"
                 THEN [c \in Classes |-> patches_since[c] + PatchesPerClass(outs)[c]]
                 ELSE patches_since
           /\ last' = [op |-> "step", split |-> split_key,
                       flushed |-> IF its = 0
                                   THEN Range(Append(buffer_splits, split_key)) ELSE {},
                       rebalanced |-> FALSE, gs |-> global_step,
                       n_qual_before |-> n_qualifying,
                       first_val_end |-> n_val_epoch_ends = 0,
                       sched_steps |-> IF split_key = "train" /\ StepSchedulerInTraining
                                       THEN 1 ELSE 0,
                       wrote |-> {},
                       reb |-> NoRebalance,
                       step |-> [terms |-> Terms(outs), mcs_loss |-> McsLoss(outs),
                                 optimizer_stepped |-> stepped,
                                 zero_grad |-> ZeroGrad(split_key),
                                 backward |-> split_key = "train",
                                 discarded |-> IF ZeroGrad(split_key)
                                               THEN grads.unapplied ELSE 0,
                                 applied |-> IF stepped
                                             THEN (IF ZeroGrad(split_key) THEN 0
                                                   ELSE grads.since_zero) + 1
                                             ELSE 0,
                                 applied_anew |-> IF stepped
                                                  THEN (IF ZeroGrad(split_key) THEN 0
                                                        ELSE grads.unapplied) + 1
                                                  ELSE 0],
                       logged |-> NoLogged]
    /\ calls' = calls + 1
    /\ window' = WindowAfterStep(split_key,
                    [loss |-> McsLoss(outs), cross_entropy |-> McsCrossEntropy(outs),
                     kld_loss |-> McsKldLoss(outs)])
    /\ UNCHANGED <<hp, prototype_class_identity, grad_mode, cls_prototypes, proto2cls,
                   rebalance_epoch_counter, lr_scheduler, optimizer, sanity_check_val,
                   best_acc, files, crashed, n_qualifying, schedule, max_calls,
                   n_val_epoch_ends, best_seen>>

training_step(outs, grad) == Step("train", "training_step", outs, grad)
validation_step(outs) == Step("val", "validation_step", outs, RZero)
test_step(outs) == Step("test", "test_step", outs, RZero)

\* ------------------------------------------------- stages and optimizers

\* __init__: which freezing function the training phase selects
FreezeOf(training_phase) ==
    IF training_phase = 0 THEN "warm_only"
    ELSE IF training_phase = 1 THEN "joint"
    ELSE "last_only"

\* StageKey with the names of the joint and the last-layer stage exchanged
StageKeyExchanged(training_phase) ==
    IF training_phase = 0 THEN "warmup"
    ELSE IF training_phase = 1 THEN "push"
    ELSE "nopush"

\* on_validation_epoch_end: stage_key
StageKey(training_phase) ==
    IF training_phase = 0 THEN "warmup"
    ELSE IF training_phase = 1 THEN "nopush"
    ELSE "push"

LastFile(stage_key) ==
    CASE stage_key = "warmup" -> "warmup_last.pth"
      [] stage_key = "nopush" -> "nopush_last.pth"
      [] OTHER -> "push_last.pth"

BestFile(stage_key) ==
    CASE stage_key = "warmup" -> "warmup_best.pth"
      [] stage_key = "nopush" -> "nopush_best.pth"
      [] OTHER -> "push_best.pth"

\* configure_optimizers: the parameter groups given to Adam; {} when reading
\* features.base.aspp raises AttributeError
OptimizerSpecs(training_phase, features_has_base, no_prototypes) ==
    IF training_phase = 0
    THEN IF features_has_base
         THEN {"add_on_layers", "aspp", "prototype_vectors"}
         ELSE {}
    ELSE IF training_phase = 1
    THEN IF features_has_base
         THEN {"features", "add_on_layers", "prototype_vectors"}
         ELSE IF no_prototypes
              THEN {"features"}
              ELSE {"features", "add_on_layers", "prototype_vectors"}
    ELSE {"last_layer"}

\* configure_optimizers: the scheduler it creates
SchedulerOf(training_phase, reduce_lr_on_plateau) ==
    IF training_phase = 1
    THEN IF reduce_lr_on_plateau THEN "ReduceLROnPlateau" ELSE "PolynomialLR"
    ELSE "None"

NoCall(op) ==
    [op |-> op, split |-> "", flushed |-> {}, rebalanced |-> FALSE, gs |-> global_step,
     n_qual_before |-> n_qualifying, first_val_end |-> n_val_epoch_ends = 0,
     sched_steps |-> 0, wrote |-> {},
     reb |-> NoRebalance, step |-> NoStep, logged |-> NoLogged]

configure_optimizers ==
    /\ crashed = ""
    /\ optimizer = {}
    /\ LET specs == OptimizerSpecs(hp.training_phase, hp.features_has_base, hp.no_prototypes)
       IN  /\ optimizer' = specs
           /\ crashed' = IF specs = {} THEN "AttributeError" ELSE ""
           /\ lr_scheduler' = IF specs = {} THEN lr_scheduler
                              ELSE SchedulerOf(hp.training_phase, hp.reduce_lr_on_plateau)
    /\ last' = NoCall("configure_optimizers")
    /\ UNCHANGED <<hp, prototype_class_identity, prototype_vectors, last_layer, grad_mode,
                   cls_prototypes, proto2cls, rebalance_epoch_counter, rebalancing_stats,
                   iter_steps, batch_metrics, metrics, sanity_check_val, best_acc,
                   global_step, files, calls, n_qualifying, schedule, trainer_stage,
                   max_calls, n_val_epoch_ends, window, loop_steps,
                   grads, buffer_splits, patches_since, best_seen>>

\* ----------------------------------------------------------- epoch callbacks

on_train_epoch_start ==
    /\ Running
    /\ Allowed("on_train_epoch_start")
    /\ trainer_stage' = StageAfter("on_train_epoch_start")
    /\ loop_steps' = LoopStepsAfter("on_train_epoch_start")
    /\ metrics' = [k \in Splits |-> reset_metrics]
    /\ last' = NoCall("on_train_epoch_start")
    /\ calls' = calls + 1
    /\ window' = IF iter_steps = 0 /\ batch_metrics.loss = <<>>
                 THEN [status |-> "open", split |-> "", values |-> <<>>]
                 ELSE NoWindow
    /\ UNCHANGED <<hp, prototype_class_identity, prototype_vectors, last_layer, grad_mode,
                   cls_prototypes, proto2cls, rebalance_epoch_counter, rebalancing_stats,
                   lr_scheduler, optimizer, iter_steps, batch_metrics, sanity_check_val,
                   best_acc, global_step, files, crashed, n_qualifying, schedule,
                   max_calls, n_val_epoch_ends,
                   grads, buffer_splits, patches_since, best_seen>>

\* _epoch_end(split_key)
EpochEnd(split_key, op) ==
    /\ Running
    /\ Allowed(op)
    /\ trainer_stage' = StageAfter(op)
    /\ loop_steps' = LoopStepsAfter(op)
    /\ LET m == IF batch_metrics.loss # <<>>
                THEN Flush(metrics[split_key], batch_metrics)
                ELSE metrics[split_key]
       IN  /\ metrics' = [metrics EXCEPT ![split_key] = m]
           /\ batch_metrics' = EmptyBatchMetrics
           /\ crashed' = IF m.n_batches = 0 \/ m.n_patches = 0
                         THEN "ZeroDivisionError" ELSE ""
           /\ buffer_splits' = <<>>
           /\ last' = [NoCall(op) EXCEPT
                          !.split = split_key,
                          !.flushed = Range(buffer_splits),
                          !.logged = IF m.n_batches = 0 THEN NoLogged
                                     ELSE [loss |-> RDivInt(m.loss, m.n_batches),
                                           cross_entropy |-> RDivInt(m.cross_entropy, m.n_batches),
                                           kld_loss |-> RDivInt(m.kld_loss, m.n_batches),
                                           n_batches |-> m.n_batches]]
    /\ calls' = calls + 1
    /\ window' = WindowAfterEpochEnd(split_key)
    /\ UNCHANGED <<hp, prototype_class_identity, prototype_vectors, last_layer, grad_mode,
                   cls_prototypes, proto2cls, rebalance_epoch_counter, rebalancing_stats,
                   lr_scheduler, optimizer, iter_steps, sanity_check_val, best_acc,
                   global_step, files, n_qualifying, schedule, max_calls,
                   n_val_epoch_ends, grads, patches_since, best_seen>>

training_epoch_end == EpochEnd("train", "training_epoch_end")
validation_epoch_end == EpochEnd("val", "validation_epoch_end")
test_epoch_end == EpochEnd("test", "test_epoch_end")

\* ------------------------------------------------- on_validation_epoch_end

\* Qualifies with the step of prototype_rebalancing itself left out
QualifiesAfter ==
    hp.prototype_rebalancing # NoneVal /\ global_step > hp.prototype_rebalancing

\* line 581: rebalancing is configured and the trainer has reached its first step
Qualifies ==
    hp.prototype_rebalancing # NoneVal /\ global_step >= hp.prototype_rebalancing

\* line 582
RebalanceDue == rebalance_epoch_counter % hp.prototype_rebalance_every = 0

\* IsBest without the test of sanity_check_val
IsBestAlsoAtSanity(val_acc) == RLess(best_acc, val_acc)

\* line 576
IsBest(val_acc) == ~sanity_check_val /\ RLess(best_acc, val_acc)

\* StepSchedulerAtEpochEnd without the test of sanity_check_val
StepSchedulerAtEveryEpochEnd ==
    lr_scheduler # "None" /\ hp.reduce_lr_on_plateau

\* line 593
StepSchedulerAtEpochEnd ==
    ~sanity_check_val /\ lr_scheduler # "None" /\ hp.reduce_lr_on_plateau

\* torch.nn.init.uniform_ draws from [0, 1)
UniformValues == {<<0, 1>>, <<1, 2>>}

\* the prototypes a call draws a vector for, given the outcomes of the two
\* argsorts (what is drawn does not change the course of the loop)
DrawnFor(order, top) ==
    LET r == RebalancePrototypes(order, top, [p \in Protos |-> RZero])
    IN  Range(r.randomized)
        \cup (IF hp.prototype_initialization_method = "random"
              THEN {r.selected[i].proto : i \in DOMAIN r.selected} ELSE {})

\* np.argsort(frac_top_proto): the prototypes with statistics by ascending
\* fraction.  The loop breaks at the first prototype at or above the
\* threshold, so only the order among the prototypes below it is left open.
ProtoOrders ==
    LET frac == [p \in ProtoNums |-> ProtoFrac(p)]
        below == {p \in ProtoNums : RLess(frac[p], hp.prototype_rebalancing_threshold)}
        rest == CHOOSE o \in Argsorts(ProtoNums \ below, frac, TRUE) : TRUE
    IN  {o \o rest : o \in Argsorts(below, frac, TRUE)}

\* np.argsort(-cls_proto_saturation): the classes by descending saturation.
\* The classes without statistics (2.0) come first and are all skipped, so
\* only the order among the classes with statistics is left open.
ClassOrders ==
    LET sat == ClsProtoSaturation
        skipped == {c \in Classes : RLess(SkipSaturation, sat[c])}
    IN  {SortedSeq(skipped) \o t : t \in Argsorts(Classes \ skipped, sat, FALSE)}

\* the outcomes of one rebalance_prototypes call, over the outcomes of the
\* two argsorts and of the uniform draws
RebalanceOutcomes ==
    UNION {
      {RebalancePrototypes(ot[1], ot[2], d) :
          d \in {f \in [Protos -> UniformValues] :
                   \A p \in Protos \ DrawnFor(ot[1], ot[2]) : f[p] = RZero}} :
      ot \in ProtoOrders \X ClassOrders}

on_validation_epoch_end ==
    /\ Running
    /\ Allowed("on_validation_epoch_end")
    /\ trainer_stage' = StageAfter("on_validation_epoch_end")
    /\ loop_steps' = LoopStepsAfter("on_validation_epoch_end")
    /\ calls' = calls + 1
    /\ n_val_epoch_ends' = n_val_epoch_ends + 1
    /\ window' = NoWindow
    /\ IF metrics["val"].n_patches = 0
       THEN /\ crashed' = "ZeroDivisionError"
            /\ last' = NoCall("on_validation_epoch_end")
            /\ UNCHANGED <<prototype_class_identity, prototype_vectors, last_layer,
                           cls_prototypes, proto2cls, rebalance_epoch_counter,
                           rebalancing_stats, sanity_check_val, best_acc, files,
                           n_qualifying, patches_since, best_seen>>
       ELSE \E r \in (IF Qualifies /\ RebalanceDue
                       THEN RebalanceOutcomes
                       ELSE {NoRebalance}) :
            LET val_acc == Rat(metrics["val"].n_correct, metrics["val"].n_patches)
                stage_key == StageKey(hp.training_phase)
                best == IsBest(val_acc)
                wrote == {LastFile(stage_key)} \cup (IF best THEN {BestFile(stage_key)} ELSE {})
                due == Qualifies /\ RebalanceDue
            IN  /\ files' = files \cup wrote
                /\ best_acc' = IF best THEN val_acc ELSE best_acc
                /\ best_seen' = IF n_val_epoch_ends > 0 /\ RLess(best_seen, val_acc)
                                 THEN val_acc ELSE best_seen
                /\ patches_since' = IF due /\ ~r.raised
                                     THEN [c \in Classes |-> 0] ELSE patches_since
                /\ prototype_class_identity' = r.ident
                /\ prototype_vectors' = r.vecs
                /\ cls_prototypes' = r.cls_prototypes
                /\ proto2cls' = r.proto2cls
                /\ last_layer' = r.last_layer
                /\ crashed' = IF r.raised THEN "NotImplementedError" ELSE ""
                /\ rebalancing_stats' = IF due /\ ~r.raised THEN EmptyStats
                                        ELSE rebalancing_stats
                /\ rebalance_epoch_counter' =
                      IF Qualifies /\ ~r.raised THEN rebalance_epoch_counter + 1
                      ELSE rebalance_epoch_counter
                /\ n_qualifying' = IF Qualifies THEN n_qualifying + 1 ELSE n_qualifying
                /\ sanity_check_val' = IF r.raised THEN sanity_check_val ELSE FALSE
                /\ last' = [NoCall("on_validation_epoch_end") EXCEPT
                               !.rebalanced = due,
                               !.wrote = wrote,
                               !.sched_steps = IF ~r.raised /\ StepSchedulerAtEpochEnd
                                               THEN 1 ELSE 0,
                               !.reb = r]
    /\ UNCHANGED <<hp, grad_mode, lr_scheduler, optimizer, iter_steps, batch_metrics,
                   metrics, global_step, schedule, max_calls, grads, buffer_splits>>

\* ---------------------------------------------------------- initial state

\* ppnet.prototype_class_identity as the constructor receives it: prototype
\* p is of class p % num_classes ("mod"), or the prototypes come in pairs and
\* the pair p \div 2 is of class (p \div 2) % num_classes ("pairs")
InitialIdentity(layout) ==
    [p \in Protos |->
        [c \in Classes |->
            IF (IF layout = "mod" THEN p % NumClasses ELSE (p \div 2) % NumClasses) = c
            THEN 1 ELSE 0]]

InitialVectors == [p \in Protos |-> Rat(p, NumProtos)]

\* the state __init__ leaves, for the hyperparameters of Configs and the
\* trainer's schedule
InitOf(Configs, Schedules, limit) ==
    /\ hp \in Configs
    /\ schedule \in Schedules
    /\ max_calls = limit
    /\ n_val_epoch_ends = 0
    /\ window = NoWindow
    /\ loop_steps = 0
    /\ grads = NoGrads
    /\ buffer_splits = <<>>
    /\ patches_since = [c \in Classes |-> 0]
    /\ best_seen = RZero
    /\ trainer_stage = IF schedule = "any" THEN "any" ELSE "sanity"
    /\ prototype_class_identity = InitialIdentity(hp.layout)
    /\ prototype_vectors = InitialVectors
    /\ last_layer = SetLastLayerIncorrectConnection(InitialIdentity(hp.layout))
    /\ grad_mode = FreezeOf(hp.training_phase)
    /\ cls_prototypes = ClsPrototypesOf(InitialIdentity(hp.layout))
    /\ proto2cls = Proto2ClsOf(InitialIdentity(hp.layout))
    /\ rebalance_epoch_counter = 0
    /\ rebalancing_stats = EmptyStats
    /\ lr_scheduler = "None"
    /\ optimizer = {}
    /\ iter_steps = 0
    /\ batch_metrics = EmptyBatchMetrics
    /\ metrics = [k \in Splits |-> reset_metrics]
    /\ sanity_check_val = TRUE
    /\ best_acc = RZero
    /\ global_step = 0
    /\ files = {}
    /\ crashed = ""
    /\ calls = 0
    /\ n_qualifying = 0
    /\ last = [op |-> "__init__", split |-> "", flushed |-> {},
               rebalanced |-> FALSE, gs |-> 0,
               n_qual_before |-> 0, first_val_end |-> TRUE, sched_steps |-> 0, wrote |-> {},
               reb |-> [ident |-> InitialIdentity(hp.layout),
                        vecs |-> InitialVectors,
                        cls_prototypes |-> ClsPrototypesOf(InitialIdentity(hp.layout)),
                        proto2cls |-> Proto2ClsOf(InitialIdentity(hp.layout)),
                        last_layer |-> SetLastLayerIncorrectConnection(InitialIdentity(hp.layout)),
                        raised |-> FALSE, rebuilt |-> FALSE, any_moved |-> FALSE,
                        selected |-> <<>>, randomized |-> <<>>,
                        saturation |-> [c \in Classes |-> InitialSaturation],
                        stats |-> EmptyStats,
                        ident_before |-> InitialIdentity(hp.layout),
                        vecs_before |-> InitialVectors,
                        cls_prototypes_before |-> ClsPrototypesOf(InitialIdentity(hp.layout)),
                        proto2cls_before |-> Proto2ClsOf(InitialIdentity(hp.layout)),
                        last_layer_before |-> SetLastLayerIncorrectConnection(InitialIdentity(hp.layout))],
               step |-> NoStep, logged |-> NoLogged]

BaseConfig ==
    [training_phase |-> 0, prototype_rebalancing |-> 0, prototype_rebalance_every |-> 1,
     prototype_rebalancing_threshold |-> <<1, 2>>,
     prototype_initialization_method |-> "random",
     randomize_all_below_threshold |-> FALSE, iter_size |-> 1,
     reduce_lr_on_plateau |-> FALSE,
     loss_weight_crs_ent |-> 1, loss_weight_clst |-> 0, loss_weight_sep |-> 0,
     loss_weight_kld |-> 0, loss_weight_l1 |-> 0,
     features_has_base |-> TRUE, no_prototypes |-> FALSE, layout |-> "mod"]

\* one model output with one patch
Output(output_class, target, act, ce, kld, l1, clst, sep) ==
    [patches |-> <<[output_class |-> output_class, target |-> target,
                    patch_activations |-> act]>>,
     cross_entropy |-> ce, kld |-> kld, l1_norm |-> l1,
     cluster_cost |-> clst, separation |-> sep]

\* activations that grow, or fall, with the prototype's number
Activations == {[p \in Protos |-> p], [p \in Protos |-> NumProtos - p]}

\* ------------------------------------------- the rebalancing pass (Spec)

\* the initialization methods (one of them not implemented), with and without
\* randomize_all_below_threshold, under a threshold of 3/4 and classes of one
\* or two prototypes; and 'mean' under a threshold of 1/2 with the
\* prototypes in pairs, where a prototype can move to a class of two
ConfigsRebalance ==
    {[BaseConfig EXCEPT !.prototype_initialization_method = m,
                        !.randomize_all_below_threshold = r,
                        !.prototype_rebalancing_threshold = t] :
        m \in {"random", "mean", "median"}, r \in BOOLEAN, t \in {<<3, 4>>}}
    \cup {[BaseConfig EXCEPT !.prototype_initialization_method = "mean",
                             !.prototype_rebalancing_threshold = <<1, 2>>,
                             !.layout = "pairs"]}

BatchesRebalance ==
    {<<Output(c, 0, a, RInt(1), RZero, RZero, RZero, RZero)>> :
        c \in Classes, a \in Activations}

Init == InitOf(ConfigsRebalance, {"lightning"}, MaxCalls)

Next ==
    \/ configure_optimizers
    \/ on_train_epoch_start
    \/ \E b \in BatchesRebalance : training_step(b, RInt(1))
    \/ \E b \in {<<Output(0, 0, [p \in Protos |-> 0], RInt(1), RZero, RZero, RZero, RZero)>>} :
          validation_step(b)
    \/ \E b \in {<<Output(0, 0, [p \in Protos |-> 0], RInt(1), RZero, RZero, RZero, RZero)>>} :
          test_step(b)
    \/ validation_epoch_end
    \/ on_validation_epoch_end
    \/ training_epoch_end
    \/ test_epoch_end

Spec == Init /\ [][Next]_vars

\* ------------------------------------------ properties of the rebalancing pass

\* the most recent call ran rebalance_prototypes
Rebalanced == last.op = "on_validation_epoch_end" /\ last.rebalanced

\* the class of prototype p in a class-identity matrix
ClassIn(ident, p) == CHOOSE c \in Classes : ident[p][c] = 1

\* the prototypes whose row of the class identity differs after the call
Changed == {p \in Protos : last.reb.ident[p] # last.reb.ident_before[p]}

\* the fraction of p in the statistics the call read
FracIn(stats, p) ==
    Rat(stats.patches_nearest_prototypes[p], stats.proto_class_patches_total[p])

\* the prototypes of class c with statistics, by the class identity before the call
WithStats(c) ==
    {q \in Protos : last.reb.ident_before[q][c] = 1
                    /\ last.reb.stats.proto_class_patches_total[q] > 0}

\* C2: in a rebalance_prototypes call every prototype whose class changes
\* has a fraction strictly below the threshold, goes to a class other than
\* its own, and that class has statistics and a least fraction over its
\* prototypes that is at least the threshold, so above the prototype's own.
C2_MovedAreUnderperforming ==
    Rebalanced =>
        \A p \in Changed :
            LET old == ClassIn(last.reb.ident_before, p)
                new == ClassIn(last.reb.ident, p)
                f == FracIn(last.reb.stats, p)
            IN  /\ last.reb.stats.proto_class_patches_total[p] > 0
                /\ RLess(f, hp.prototype_rebalancing_threshold)
                /\ new # old
                /\ WithStats(new) # {}
                /\ \A q \in WithStats(new) :
                      /\ RLeq(hp.prototype_rebalancing_threshold, FracIn(last.reb.stats, q))
                      /\ RLess(f, FracIn(last.reb.stats, q))

\* a call moved two prototypes
C2_Witness == Rebalanced /\ Cardinality(Changed) >= 2

\* the entry of the call's record for prototype p
EntryOf(p) ==
    last.reb.selected[CHOOSE i \in DOMAIN last.reb.selected : last.reb.selected[i].proto = p]

\* the mean of the vectors vecs of the prototypes of class c in ident
MeanOfClass(ident, vecs, c) ==
    LET members == SortedSeq({q \in Protos : ident[q][c] = 1})
    IN  Mean([i \in 1 .. Len(members) |-> vecs[members[i]]])

\* C3: every prototype a rebalance_prototypes call reassigns is reinitialized
\* in that call: a uniform draw from [0, 1) with 'random', the mean of the
\* vectors of the prototypes that the class identity puts in the destination
\* class at that moment with 'mean'; a prototype with a fraction at or above
\* the threshold, or without statistics, keeps its vector and its class.
C3_ReassignedAreReinitialized ==
    Rebalanced =>
        /\ \A p \in Changed :
              /\ \E i \in DOMAIN last.reb.selected : last.reb.selected[i].proto = p
              /\ LET e == EntryOf(p)
                 IN  /\ hp.prototype_initialization_method \in {"random", "mean"}
                     /\ hp.prototype_initialization_method = "random" =>
                           /\ last.reb.vecs[p] = e.draw
                           /\ RLeq(RZero, e.draw) /\ RLess(e.draw, RInt(1))
                     /\ hp.prototype_initialization_method = "mean" =>
                           last.reb.vecs[p] =
                               MeanOfClass(e.ident_before, e.vecs_before,
                                           ClassIn(last.reb.ident, p))
        /\ \A p \in Protos :
              (\/ last.reb.stats.proto_class_patches_total[p] = 0
               \/ ~RLess(FracIn(last.reb.stats, p), hp.prototype_rebalancing_threshold))
              => /\ last.reb.vecs[p] = last.reb.vecs_before[p]
                 /\ last.reb.ident[p] = last.reb.ident_before[p]

\* a call with 'mean' moved a prototype to a class of two prototypes, and a
\* prototype with statistics stayed
C3_Witness ==
    /\ Rebalanced
    /\ hp.prototype_initialization_method = "mean"
    /\ \E p \in Changed :
          Cardinality({q \in Protos :
              EntryOf(p).ident_before[q][ClassIn(last.reb.ident, p)] = 1}) >= 2
    /\ \E p \in Protos \ Changed : last.reb.stats.proto_class_patches_total[p] > 0

\* C4: every row of prototype_class_identity has exactly one entry equal to
\* 1 and zeros elsewhere, so the classes hold NumProtos prototypes in all.
C4_OneClassPerPrototype ==
    /\ \A p \in Protos :
          /\ \A c \in Classes : prototype_class_identity[p][c] \in {0, 1}
          /\ Cardinality({c \in Classes : prototype_class_identity[p][c] = 1}) = 1
    /\ IntSum([i \in 1 .. NumClasses |->
          Cardinality({p \in Protos : prototype_class_identity[p][i - 1] = 1})]) = NumProtos

\* a prototype is in another class than at construction, after training went on
C4_Witness ==
    /\ \E p \in Protos : prototype_class_identity[p] # InitialIdentity(hp.layout)[p]
    /\ last.op = "step"

\* C5: when rebalance_prototypes selects a prototype to move and the
\* initialization method is neither 'random' nor 'mean', the call ends in
\* NotImplementedError with the class identity, the prototype vectors,
\* cls_prototypes, proto2cls and the last layer as they were before the call.
C5_UnimplementedMethodRaises ==
    (/\ Rebalanced
     /\ last.reb.selected # <<>>
     /\ hp.prototype_initialization_method \notin {"random", "mean"})
    => /\ crashed = "NotImplementedError"
       /\ prototype_class_identity = last.reb.ident_before
       /\ prototype_vectors = last.reb.vecs_before
       /\ cls_prototypes = last.reb.cls_prototypes_before
       /\ proto2cls = last.reb.proto2cls_before
       /\ last_layer = last.reb.last_layer_before

\* the call raised while randomize_all_below_threshold was set
C5_Witness ==
    /\ Rebalanced
    /\ crashed = "NotImplementedError"
    /\ hp.randomize_all_below_threshold

\* C10: for every prototype 0 <= patches_nearest_prototypes <=
\* proto_class_patches_total, so every fraction rebalance_prototypes computes
\* is in [0, 1], and in a call a class has a saturation above 1.1 exactly
\* when none of its prototypes has statistics.
C10_CountersConsistent ==
    /\ \A p \in Protos :
          /\ 0 <= rebalancing_stats.patches_nearest_prototypes[p]
          /\ rebalancing_stats.patches_nearest_prototypes[p]
                <= rebalancing_stats.proto_class_patches_total[p]
    /\ Rebalanced =>
          /\ \A p \in Protos :
                last.reb.stats.proto_class_patches_total[p] > 0 =>
                    /\ RLeq(RZero, FracIn(last.reb.stats, p))
                    /\ RLeq(FracIn(last.reb.stats, p), RInt(1))
          /\ \A c \in Classes :
                RLess(SkipSaturation, last.reb.saturation[c]) <=> WithStats(c) = {}

\* a call read statistics in which a class had none and a prototype had a
\* fraction strictly between 0 and 1
C10_Witness ==
    /\ Rebalanced
    /\ \E c \in Classes : WithStats(c) = {}
    /\ \E p \in Protos :
          /\ last.reb.stats.proto_class_patches_total[p] > 0
          /\ RLess(RZero, FracIn(last.reb.stats, p))
          /\ RLess(FracIn(last.reb.stats, p), RInt(1))

\* ------------------------------- the callbacks in any order (SpecSched)

\* one batch of one output with one patch of class 0, rightly predicted
OneBatch == <<Output(0, 0, [p \in Protos |-> p], RInt(1), RZero, RZero, RZero, RZero)>>

ConfigsPeriod ==
    {[BaseConfig EXCEPT !.prototype_initialization_method = "mean",
                        !.prototype_rebalancing = r,
                        !.prototype_rebalance_every = e] :
        r \in {NoneVal, 0, 1}, e \in {1, 2}}

ConfigsStages ==
    {[BaseConfig EXCEPT !.prototype_rebalancing = NoneVal,
                        !.training_phase = ph,
                        !.reduce_lr_on_plateau = r,
                        !.features_has_base = b,
                        !.no_prototypes = n] :
        ph \in {0, 1, 2}, r \in BOOLEAN, b \in BOOLEAN, n \in BOOLEAN}
    \cup {[BaseConfig EXCEPT !.prototype_rebalancing = NoneVal,
                             !.training_phase = 1,
                             !.reduce_lr_on_plateau = r,
                             !.iter_size = 2] : r \in BOOLEAN}

InitSched == InitOf(ConfigsPeriod \cup ConfigsStages, {"any"}, MaxCallsAny)

NextSched ==
    \/ configure_optimizers
    \/ on_train_epoch_start
    \/ training_step(OneBatch, RInt(1))
    \/ validation_step(OneBatch)
    \/ test_step(OneBatch)
    \/ validation_epoch_end
    \/ on_validation_epoch_end
    \/ training_epoch_end
    \/ test_epoch_end

SpecSched == InitSched /\ [][NextSched]_vars

\* ------------------------------------- properties of the callbacks' order

\* the most recent call was an on_validation_epoch_end that got past the
\* validation accuracy of line 559
ValidationEnded ==
    last.op = "on_validation_epoch_end" /\ crashed # "ZeroDivisionError"

\* C1: an on_validation_epoch_end call runs rebalance_prototypes exactly when
\* prototype_rebalancing = R is not None, trainer.global_step >= R, and the
\* call is the 1st, (E+1)-th, (2E+1)-th, ... of the calls with global_step >= R
\* (E = prototype_rebalance_every): never below R, never with R = None.
C1_RebalancingIsPeriodic ==
    ValidationEnded =>
        (last.rebalanced <=>
            /\ hp.prototype_rebalancing # NoneVal
            /\ last.gs >= hp.prototype_rebalancing
            /\ last.n_qual_before % hp.prototype_rebalance_every = 0)

\* with E = 2 and R = 1 the third call at or after step R rebalanced, after a
\* call below R
C1_Witness ==
    /\ ValidationEnded
    /\ hp.prototype_rebalancing = 1
    /\ hp.prototype_rebalance_every = 2
    /\ last.n_qual_before = 2
    /\ n_val_epoch_ends = 4
    /\ last.rebalanced

\* the stage a training phase stands for
StageOf(training_phase) ==
    IF training_phase = 0 THEN "warm-up"
    ELSE IF training_phase = 1 THEN "joint"
    ELSE "last-layer"

\* the freezing function, and the checkpoint files, of a stage
FreezeOfStage(stage) ==
    CASE stage = "warm-up" -> "warm_only"
      [] stage = "joint" -> "joint"
      [] OTHER -> "last_only"

FilesOfStage(stage) ==
    CASE stage = "warm-up" -> {"warmup_last.pth", "warmup_best.pth"}
      [] stage = "joint" -> {"nopush_last.pth", "nopush_best.pth"}
      [] OTHER -> {"push_last.pth", "push_best.pth"}

\* the parameter groups the statement gives the optimizer of a stage
StatedGroups(stage) ==
    CASE stage = "warm-up" -> {"add_on_layers", "aspp", "prototype_vectors"}
      [] stage = "joint" -> {"features", "add_on_layers", "prototype_vectors"}
      [] OTHER -> {"last_layer"}

\* configure_optimizers has been called
Configured == optimizer # {} \/ crashed = "AttributeError"

\* C7 as stated: the constructor's freezing, the optimizer's parameter groups
\* and the checkpoint names are those of the one stage of training_phase,
\* with the joint optimizer over features, add-on layers and prototype vectors
\* and the warm-up optimizer over add-on layers, ASPP and prototype vectors.
C7_AsStated ==
    LET stage == StageOf(hp.training_phase)
    IN  /\ grad_mode = FreezeOfStage(stage)
        /\ files \subseteq FilesOfStage(stage)
        /\ Configured => optimizer = StatedGroups(stage)

\* C7: the constructor's freezing and the checkpoint names are those of the
\* one stage of training_phase, and so is the optimizer, except that the
\* joint optimizer covers the features alone when features has no 'base' and
\* ppnet.no_prototypes is set, and that configure_optimizers raises
\* AttributeError in the warm-up phase when features has no 'base'.
C7_StageIsConsistent ==
    LET stage == StageOf(hp.training_phase)
    IN  /\ grad_mode = FreezeOfStage(stage)
        /\ files \subseteq FilesOfStage(stage)
        /\ Configured =>
              IF stage = "warm-up" /\ ~hp.features_has_base
              THEN crashed = "AttributeError" /\ optimizer = {}
              ELSE IF stage = "joint" /\ ~hp.features_has_base /\ hp.no_prototypes
              THEN optimizer = {"features"}
              ELSE optimizer = StatedGroups(stage)

\* a joint phase without 'base' and without prototypes has written its best
\* checkpoint
C7_Witness ==
    /\ hp.training_phase = 1
    /\ ~hp.features_has_base
    /\ hp.no_prototypes
    /\ optimizer = {"features"}
    /\ "nopush_best.pth" \in files

\* C8: lr_scheduler is not None only in the joint phase; without
\* reduce_lr_on_plateau a call steps it once if it is a training step and
\* never otherwise, with reduce_lr_on_plateau a call steps it once if it is
\* an on_validation_epoch_end other than the first that returns, and never
\* otherwise; in the other phases no call steps a scheduler.
C8_SchedulerSteppedFromOnePlace ==
    /\ lr_scheduler # "None" => hp.training_phase = 1
    /\ (optimizer # {} /\ hp.training_phase = 1) => lr_scheduler # "None"
    /\ last.sched_steps =
          IF hp.training_phase # 1 \/ optimizer = {} THEN 0
          ELSE IF ~hp.reduce_lr_on_plateau
          THEN IF last.op = "step" /\ last.split = "train" THEN 1 ELSE 0
          ELSE IF last.op = "on_validation_epoch_end" /\ ~last.first_val_end /\ crashed = ""
          THEN 1 ELSE 0

\* the second on_validation_epoch_end of a joint phase with
\* reduce_lr_on_plateau stepped the scheduler, with iter_size 2
C8_Witness ==
    /\ hp.training_phase = 1
    /\ hp.reduce_lr_on_plateau
    /\ hp.iter_size = 2
    /\ last.op = "on_validation_epoch_end"
    /\ n_val_epoch_ends = 2
    /\ last.sched_steps = 1

\* ------------------------------------ loss and metrics (SpecMetrics)

\* weights with every term on, with the KLD and L1 weights below zero, and
\* with the KLD and L1 weights zero, for accumulation over 1, 2 and 3 steps
ConfigsMetrics ==
    {[BaseConfig EXCEPT !.prototype_rebalancing = NoneVal,
                        !.iter_size = 1,
                        !.loss_weight_crs_ent = 2, !.loss_weight_kld = 1,
                        !.loss_weight_l1 = 1, !.loss_weight_clst = 1,
                        !.loss_weight_sep = 1],
     [BaseConfig EXCEPT !.prototype_rebalancing = NoneVal,
                        !.iter_size = 2,
                        !.loss_weight_crs_ent = 1, !.loss_weight_kld = -1,
                        !.loss_weight_l1 = -1, !.loss_weight_clst = 0,
                        !.loss_weight_sep = 0],
     [BaseConfig EXCEPT !.prototype_rebalancing = NoneVal,
                        !.iter_size = 3,
                        !.loss_weight_crs_ent = 1, !.loss_weight_kld = 0,
                        !.loss_weight_l1 = 0, !.loss_weight_clst = 1,
                        !.loss_weight_sep = 1]}

\* a batch of one output, and a batch of two outputs with other loss terms
BatchesMetrics ==
    {<<Output(0, 0, [p \in Protos |-> p], RInt(1), RInt(1), RInt(1), RInt(1), RInt(1))>>,
     <<Output(0, 1, [p \in Protos |-> p], RInt(1), RInt(1), RInt(2), RInt(1), RInt(1)),
       Output(0, 0, [p \in Protos |-> p], RInt(2), RInt(4), RInt(2), RInt(3), RInt(5))>>}

InitMetrics == InitOf(ConfigsMetrics, {"any"}, MaxCallsMetrics)

NextMetrics ==
    \/ configure_optimizers
    \/ on_train_epoch_start
    \/ \E b \in BatchesMetrics : training_step(b, RInt(1))
    \/ validation_step(OneBatch)
    \/ test_step(OneBatch)
    \/ validation_epoch_end
    \/ on_validation_epoch_end
    \/ training_epoch_end
    \/ test_epoch_end

SpecMetrics == InitMetrics /\ [][NextMetrics]_vars

\* ------------------------------------- properties of the loss and metrics

\* the mean over the outputs of the most recent step of f(terms of the output)
MeanOverOutputs(f(_)) ==
    Mean([i \in DOMAIN last.step.terms |-> f(last.step.terms[i])])

\* the loss of an output as the statement has it
StatedLoss(t) ==
    RSum(<<RMul(RInt(hp.loss_weight_crs_ent), t.cross_entropy),
           RMul(RInt(hp.loss_weight_clst), t.cluster_cost),
           RMul(RInt(hp.loss_weight_sep), t.separation),
           RMul(RInt(hp.loss_weight_kld), t.kld),
           RMul(RInt(hp.loss_weight_l1), t.l1_norm)>>)

\* the loss of an output without the clustering and separation terms, the KLD
\* term and the L1 norm only under a weight above zero
WeightedLoss(t) ==
    RSum(<<RMul(RInt(hp.loss_weight_crs_ent), t.cross_entropy),
           IF hp.loss_weight_kld > 0
           THEN RMul(RInt(hp.loss_weight_kld), t.kld) ELSE RZero,
           IF hp.loss_weight_l1 > 0
           THEN RMul(RInt(hp.loss_weight_l1), t.l1_norm) ELSE RZero>>)

\* C6 as stated: the loss of a step is the mean over the model outputs of
\* the cross-entropy, clustering, separation, KLD and L1 terms, each times
\* its weight.
C6_AsStated ==
    last.op = "step" => last.step.mcs_loss = MeanOverOutputs(StatedLoss)

\* C6: the loss of a step is the mean over the model outputs of the
\* cross-entropy term times loss_weight_crs_ent, plus the KLD term times
\* loss_weight_kld when that weight is above zero, plus the L1 norm times
\* loss_weight_l1 when that weight is above zero; the clustering and
\* separation terms and their weights do not enter.
C6_LossIsWeightedSum ==
    last.op = "step" => last.step.mcs_loss = MeanOverOutputs(WeightedLoss)

\* a step of two outputs with the KLD, L1, clustering and separation weights
\* above zero
C6_Witness ==
    /\ last.op = "step"
    /\ Len(last.step.terms) = 2
    /\ hp.loss_weight_kld > 0 /\ hp.loss_weight_l1 > 0
    /\ hp.loss_weight_clst > 0 /\ hp.loss_weight_sep > 0

\* the number of accumulation groups of k steps: the full groups of iter_size
\* steps and a trailing partial one
GroupsOf(k) ==
    (k \div hp.iter_size) + (IF k % hp.iter_size # 0 THEN 1 ELSE 0)

\* the steps of group g among k steps
GroupSteps(g, k) ==
    {i \in 1 .. k : (g - 1) * hp.iter_size < i /\ i <= g * hp.iter_size}

\* the sum over the groups of the group's mean of the values of key
SumOfGroupMeans(key(_)) ==
    LET k == Len(window.values)
    IN  RSum([g \in 1 .. GroupsOf(k) |->
            LET steps == SortedSeq(GroupSteps(g, k))
            IN  Mean([j \in DOMAIN steps |-> key(window.values[steps[j]])])])

LossOf(v) == v.loss
CrossEntropyOf(v) == v.cross_entropy
KldLossOf(v) == v.kld_loss

\* C9: when on_train_epoch_start found iter_steps = 0 and no buffered values
\* and only steps of one split ran until that split's _epoch_end, n_batches
\* of the split is the number of accumulation groups, and the logged loss,
\* cross_entropy and kld_loss are the sums of the groups' means divided by
\* n_batches; on_train_epoch_start sets every counter of the four splits to 0.
C9_MetricsAggregatePerSplit ==
    /\ window.status = "ended" =>
          LET n == GroupsOf(Len(window.values))
          IN  /\ metrics[window.split].n_batches = n
              /\ n > 0 =>
                    /\ last.logged.n_batches = n
                    /\ last.logged.loss = RDivInt(SumOfGroupMeans(LossOf), n)
                    /\ last.logged.cross_entropy = RDivInt(SumOfGroupMeans(CrossEntropyOf), n)
                    /\ last.logged.kld_loss = RDivInt(SumOfGroupMeans(KldLossOf), n)
    /\ last.op = "on_train_epoch_start" =>
          /\ DOMAIN metrics = {"train", "val", "test", "train_last_layer"}
          /\ \A k \in DOMAIN metrics :
                /\ metrics[k].n_correct = 0 /\ metrics[k].n_batches = 0
                /\ metrics[k].n_patches = 0 /\ metrics[k].loss = RZero
                /\ metrics[k].cross_entropy = RZero /\ metrics[k].kld_loss = RZero

\* four training steps with iter_size 3, of different losses, then
\* training_epoch_end: a full group and a partial one
C9_Witness ==
    /\ window.status = "ended"
    /\ window.split = "train"
    /\ hp.iter_size = 3
    /\ Len(window.values) = 4
    /\ window.values[1].loss # window.values[4].loss
    /\ last.logged.n_batches = 2

\* ------------------------------------ properties of the manual optimization

\* C11: every optimizer.step() applies the gradients of exactly iter_size
\* manual_backward calls made since the last optimizer.zero_grad(), no
\* zero_grad discards a gradient that no step has applied, and validation
\* and test steps call none of manual_backward, optimizer.step and zero_grad.
C11_StepAppliesIterSizeBatches ==
    last.op = "step" =>
        /\ last.step.optimizer_stepped =>
              /\ last.step.applied = hp.iter_size
              /\ last.step.applied_anew = hp.iter_size
        /\ last.step.discarded = 0
        /\ last.split # "train" =>
              /\ ~last.step.zero_grad
              /\ ~last.step.backward
              /\ ~last.step.optimizer_stepped

\* a training step's zero_grad discarded the gradient of an earlier training
\* step that no optimizer.step had applied
C11_Witness ==
    /\ last.op = "step"
    /\ last.split = "train"
    /\ last.step.zero_grad
    /\ last.step.discarded > 0

\* ------------------------------------- more properties of the rebalancing pass

\* the most recent call ran rebalance_prototypes and it returned
RebalanceReturned == Rebalanced /\ ~last.reb.raised

\* the prototypes with statistics in the call, and the classes with statistics
StatProtos == {p \in Protos : last.reb.stats.proto_class_patches_total[p] > 0}
StatClasses == {c \in Classes : WithStats(c) # {}}

\* the prototypes the call moved, in the order it moved them, and the
\* classes it moved them to
MovedProtos == {last.reb.selected[i].proto : i \in DOMAIN last.reb.selected}
UsedClasses(i) == {last.reb.selected[j].to : j \in 1 .. i}

\* C12: with randomize_all_below_threshold False a call moves at most
\* num_classes prototypes and at most one to each class; the m prototypes it
\* moves are m of lowest fraction, the i-th of them in ascending fraction
\* goes to the class of i-th highest saturation among the classes with
\* statistics, and a prototype below the threshold stays only when every
\* class left has a saturation below the threshold.
C12_LowestGoToMostSaturated ==
    (RebalanceReturned /\ ~hp.randomize_all_below_threshold) =>
        LET sel == last.reb.selected
            m == Len(sel)
            sat == last.reb.saturation
            thr == hp.prototype_rebalancing_threshold
        IN  /\ m <= NumClasses
            /\ Changed = MovedProtos
            /\ Cardinality(MovedProtos) = m
            /\ Cardinality(UsedClasses(m)) = m
            /\ \A i \in 1 .. m :
                  /\ sel[i].frac = FracIn(last.reb.stats, sel[i].proto)
                  /\ ClassIn(last.reb.ident, sel[i].proto) = sel[i].to
                  /\ i < m => RLeq(sel[i].frac, sel[i + 1].frac)
                  /\ \A q \in StatProtos \ MovedProtos :
                        RLeq(sel[i].frac, FracIn(last.reb.stats, q))
                  /\ sel[i].to \in StatClasses
                  /\ \A c \in StatClasses \ UsedClasses(i - 1) :
                        RLeq(sat[c], sat[sel[i].to])
            /\ (\E q \in StatProtos \ MovedProtos :
                   RLess(FracIn(last.reb.stats, q), thr))
               => \A c \in StatClasses \ UsedClasses(m) : RLess(sat[c], thr)

\* a call moved a prototype and left another one below the threshold where
\* it was
C12_Witness ==
    /\ RebalanceReturned
    /\ ~hp.randomize_all_below_threshold
    /\ Len(last.reb.selected) >= 1
    /\ \E q \in StatProtos \ MovedProtos :
          RLess(FracIn(last.reb.stats, q), hp.prototype_rebalancing_threshold)

\* the statistics are those of the training patches since the last
\* rebalance_prototypes call that returned (since construction before the
\* first): every prototype of a class has the class's patches as its total,
\* and the patches of a class with prototypes are each nearest to one of them
StatsCoverPatchesSince ==
    IF hp.prototype_rebalancing = NoneVal
    THEN rebalancing_stats = EmptyStats
    ELSE \A c \in Classes :
            LET members == Range(cls_prototypes[c])
            IN  /\ \A p \in members :
                      rebalancing_stats.proto_class_patches_total[p] = patches_since[c]
                /\ members # {} =>
                      IntSum([i \in 1 .. Len(cls_prototypes[c]) |->
                          rebalancing_stats.patches_nearest_prototypes[cls_prototypes[c][i]]])
                      = patches_since[c]

\* a call changes the statistics only as a training step under a
\* prototype_rebalancing that is not None, or as an on_validation_epoch_end
\* whose rebalance_prototypes returned, which empties them
StatsChangeOnlyThere ==
    rebalancing_stats' # rebalancing_stats =>
        \/ /\ last'.op = "step" /\ last'.split = "train"
           /\ hp.prototype_rebalancing # NoneVal
        \/ /\ last'.op = "on_validation_epoch_end"
           /\ last'.rebalanced /\ ~last'.reb.raised
           /\ rebalancing_stats' = EmptyStats

\* C13: the statistics a rebalance_prototypes call reads cover exactly the
\* training steps since the previous call: the counters grow only in
\* training steps and only when prototype_rebalancing is not None, no
\* validation or test step changes them, and they are emptied right after
\* every rebalance_prototypes call and at no other time.
C13_StatsCoverStepsSinceRebalance ==
    /\ [](StatsCoverPatchesSince /\ (RebalanceReturned => rebalancing_stats = EmptyStats))
    /\ [][StatsChangeOnlyThere]_vars

\* the second rebalance_prototypes call read the patches of the training
\* steps made after the first
C13_Witness ==
    /\ RebalanceReturned
    /\ rebalance_epoch_counter >= 2
    /\ \E p \in Protos : last.reb.stats.proto_class_patches_total[p] > 0

\* C14: the helper collections mirror the class identity: for every
\* prototype p and class c, proto2cls[p] = c exactly when p is in
\* cls_prototypes[c], exactly when prototype_class_identity[p][c] = 1.
C14_HelpersMirrorIdentity ==
    \A p \in Protos : \A c \in Classes :
        /\ (proto2cls[p] = c) <=> (p \in Range(cls_prototypes[c]))
        /\ (p \in Range(cls_prototypes[c])) <=> (prototype_class_identity[p][c] = 1)

\* a call after the first moved a prototype and returned
C14_Witness ==
    /\ RebalanceReturned
    /\ rebalance_epoch_counter >= 2
    /\ Changed # {}

\* C15: every class that had a prototype at construction has one in
\* prototype_class_identity.
C15_NoClassIsEmptied ==
    \A c \in Classes :
        (\E p \in Protos : InitialIdentity(hp.layout)[p][c] = 1)
        => \E p \in Protos : prototype_class_identity[p][c] = 1

\* a call moved both prototypes of a class away and returned
C15_Witness ==
    /\ RebalanceReturned
    /\ \E c \in Classes :
          /\ Cardinality({p \in Protos : last.reb.ident_before[p][c] = 1}) = 2
          /\ \A p \in Protos : prototype_class_identity[p][c] = 0

\* C18: a rebalance_prototypes call that returns runs lines 521-538 (the
\* class-identity file, cls_prototypes and proto2cls rebuilt, the last layer
\* set anew) exactly when it moved a prototype or rebalance_epoch_counter
\* was 0; otherwise prototype_class_identity, cls_prototypes, proto2cls and
\* the last layer are as before the call, also when vectors were randomized.
C18_RebuildOnlyWhenMovedOrFirst ==
    RebalanceReturned =>
        LET due == MovedProtos # {} \/ rebalance_epoch_counter - 1 = 0
        IN  /\ last.reb.rebuilt <=> due
            /\ due =>
                  /\ last_layer.connection = prototype_class_identity
                  /\ last_layer.updates = 0
                  /\ \A c \in Classes :
                        Range(cls_prototypes[c])
                        = {p \in Protos : prototype_class_identity[p][c] = 1}
                  /\ \A p \in Protos : prototype_class_identity[p][proto2cls[p]] = 1
            /\ ~due =>
                  /\ prototype_class_identity = last.reb.ident_before
                  /\ cls_prototypes = last.reb.cls_prototypes_before
                  /\ proto2cls = last.reb.proto2cls_before
                  /\ last_layer = last.reb.last_layer_before

\* a call after the first randomized a vector and moved nothing
C18_Witness ==
    /\ RebalanceReturned
    /\ rebalance_epoch_counter >= 2
    /\ last.reb.randomized # <<>>
    /\ MovedProtos = {}
    /\ ~last.reb.rebuilt

\* C16: the values that a step or an epoch end of one split adds to
\* metrics[split] come from steps of that split only.
C16_MetricsOfOneSplitOnly ==
    last.flushed \subseteq {last.split}

\* a validation step added the mean of a training and a validation value
\* to the validation metrics
C16_Witness ==
    /\ last.op = "step"
    /\ last.split = "val"
    /\ last.flushed = {"train", "val"}

\* ------------------------------------- the best checkpoint (SpecBest)

\* the three training phases, without rebalancing
ConfigsBest ==
    {[BaseConfig EXCEPT !.prototype_rebalancing = NoneVal, !.training_phase = ph] :
        ph \in {0, 1, 2}}

\* a validation batch of one patch, predicted right or wrong
BatchesBest ==
    {<<Output(c, 0, [p \in Protos |-> p], RInt(1), RZero, RZero, RZero, RZero)>> :
        c \in {0, 1}}

InitBest == InitOf(ConfigsBest, {"any"}, MaxCallsBest)

NextBest ==
    \/ configure_optimizers
    \/ on_train_epoch_start
    \/ \E b \in BatchesBest : validation_step(b)
    \/ on_validation_epoch_end

SpecBest == InitBest /\ [][NextBest]_vars

\* what one callback does to best_acc and to the checkpoint files: best_acc
\* does not decrease, an on_validation_epoch_end that returns writes
\* '<stage>_last.pth', and it writes '<stage>_best.pth' exactly when best_acc
\* grows; no other callback writes a file
BestAccStep ==
    /\ RLeq(best_acc, best_acc')
    /\ files' = files \cup last'.wrote
    /\ IF last'.op = "on_validation_epoch_end" /\ crashed' = ""
       THEN \E l, b \in FilesOfStage(StageOf(hp.training_phase)) :
               /\ l \in {"warmup_last.pth", "nopush_last.pth", "push_last.pth"}
               /\ b \in {"warmup_best.pth", "nopush_best.pth", "push_best.pth"}
               /\ l \in last'.wrote
               /\ (b \in last'.wrote) <=> RLess(best_acc, best_acc')
               /\ last'.wrote \subseteq {l, b}
       ELSE last'.wrote = {}

\* C17: best_acc never decreases and is the greatest of 0.0 and the
\* validation accuracies of all on_validation_epoch_end calls but the first;
\* '<stage>_best.pth' is written exactly when best_acc grows, and
\* '<stage>_last.pth' at every call, the first included.
C17_BestAccIsRunningMaximum ==
    /\ [](best_acc = best_seen)
    /\ [][BestAccStep]_vars

\* a call after best_acc has grown sees a lower accuracy: it writes the
\* last checkpoint and not the best one
C17_Witness ==
    /\ last.op = "on_validation_epoch_end"
    /\ crashed = ""
    /\ n_val_epoch_ends >= 3
    /\ RLess(RZero, best_acc)
    /\ RLess(Rat(metrics["val"].n_correct, metrics["val"].n_patches), best_acc)
    /\ \E l \in {"warmup_last.pth", "nopush_last.pth", "push_last.pth"} :
          last.wrote = {l}

=============================================================================
